---- MODULE Spec2Model ----
(***************************************************************************)
(* Reviewinator: the polling / reconciliation core of the menu bar app.    *)
(*                                                                         *)
(* The model follows src/src/reviewinator/app.py (ReviewinatorApp),        *)
(* notifications.py (find_new_prs, find_status_changes) and cache.py       *)
(* (load_cache, save_cache).  Every poll runs _fetch_and_update on its own *)
(* daemon thread (app.py:205-208); the statements of that method are the   *)
(* steps of a worker, so that polls started by the timer and by            *)
(* "Check Now" interleave as the threads of the program do.                *)
(*                                                                         *)
(* Time is an integer number of days, 0 when the process starts (a cache   *)
(* file written by an earlier run holds earlier days).  A timestamp that   *)
(* is None is NoneTime, a review status that is None is NoneStatus.        *)
(***************************************************************************)
EXTENDS Integers, Sequences, FiniteSets, TLC

\* ------------------------------------------------------------------ bounds
MaxPolls == 2        \* polls started in one run of the process
MaxThreads == 2      \* worker threads that can be alive at the same time
MaxTime == 1         \* days the clock can advance
MaxLookback == 2     \* largest configured activity_lookback_days

\* --------------------------------------------------------------- constants
NoneTime == -9
NoneStatus == "None"

Threads == 1..MaxThreads
Errors == {"network"}

\* The repository a PR id lives in, and whether the user authored it: both
\* are fixed properties of the remote PR.
RepoOf(i) == IF i = 2 THEN "org/b" ELSE "org/a"
TypeOf(i) == IF i = 2 THEN "review_request" ELSE "created"

\* github_client.py:11-23, the fields of PullRequest the core reads.
PullRequest(i, st) ==
    [id |-> i, repo |-> RepoOf(i), type |-> TypeOf(i), review_status |-> st]

\* ------------------------------------------------------- sequence helpers
Range(s) == {s[k] : k \in DOMAIN s}

RECURSIVE SelectSeqBy(_, _)
\* The subsequence of s whose elements are in the set keep (a Python list
\* comprehension with a filter).
SelectSeqBy(s, keep) ==
    IF s = <<>> THEN <<>>
    ELSE IF Head(s) \in keep THEN <<Head(s)>> \o SelectSeqBy(Tail(s), keep)
         ELSE SelectSeqBy(Tail(s), keep)

\* ------------------------------------------------------------ fetch input
\* github_client.py:264-272: what fetch_prs can return, review requests
\* first (review_status None), then the created PRs (each with a status).
\* The snapshots of the remote a run draws from: nothing open; PR 2 to
\* review and PR 1 waiting; PR 3 and PR 1 approved; PR 1 commented on;
\* PR 1 with changes requested.
FetchResults ==
    {<<>>,
     <<PullRequest(2, NoneStatus), PullRequest(1, "waiting")>>,
     <<PullRequest(3, "approved"), PullRequest(1, "approved")>>,
     <<PullRequest(1, "commented")>>,
     <<PullRequest(1, "changes_requested")>>}

\* ------------------------------------------------------------------ cache
\* Keys of pr_statuses: an int in memory (app.py:241-245), a string once
\* the mapping went through JSON (cache.py:45,63).
IntKey(i) == [t |-> "int", v |-> i]
StrKey(i) == [t |-> "str", v |-> i]

EmptyMap == [x \in {} |-> 0]

\* cache.py:9-15 plus the repo_activity field app.py:218-226 uses.
Cache(seen, statuses, checked, activity) ==
    [seen_prs |-> seen, pr_statuses |-> statuses,
     last_checked |-> checked, repo_activity |-> activity]

EmptyCache == Cache({}, EmptyMap, NoneTime, EmptyMap)

\* datetime.isoformat / datetime.fromisoformat on a timestamp.
isoformat(t) == [iso |-> t]
fromisoformat(s) == s.iso

\* JSON null, in the place of an ISO-8601 string.
JsonNull == [iso |-> NoneTime]

\* json.dump turns the int keys of a dict into strings.
json_keys(m) ==
    [k \in {StrKey(j.v) : j \in DOMAIN m} |->
        IF IntKey(k.v) \in DOMAIN m THEN m[IntKey(k.v)] ELSE m[StrKey(k.v)]]

\* What a call gives when it raises instead of returning.
Raised(e) == [raised |-> e]

\* The repo_activity part of the cache file: written as ISO-8601 strings,
\* read back with an empty mapping when the key is missing.
save_repo_activity(activity) == [r \in DOMAIN activity |-> isoformat(activity[r])]
load_repo_activity(data) ==
    IF data.state = "json_without_repo_activity" THEN EmptyMap
    ELSE [r \in DOMAIN data.repo_activity |-> fromisoformat(data.repo_activity[r])]

\* cache.py:52-68
save_cache(c) ==
    [state |-> "json",
     seen_prs |-> c.seen_prs,
     pr_statuses |-> json_keys(c.pr_statuses),
     last_checked |-> IF c.last_checked # NoneTime
                      THEN isoformat(c.last_checked) ELSE JsonNull,
     repo_activity |-> save_repo_activity(c.repo_activity)]

\* What can be at the cache path besides a file save_cache wrote: nothing,
\* a file that cannot be opened, text that is not JSON, and JSON of another
\* structure (state says which; the other fields are what the JSON holds
\* where it is well-formed).
AbsentFile == [save_cache(EmptyCache) EXCEPT !.state = "absent"]
CorruptFile == [save_cache(EmptyCache) EXCEPT !.state = "corrupt"]
FileStates ==
    {"absent", "unreadable", "corrupt", "json", "json_without_repo_activity",
     "json_top_level_list", "json_seen_prs_number", "json_last_checked_number",
     "json_last_checked_not_iso"}

\* load_cache with the repo_activity key required: a file without it is a
\* KeyError, which the except clause turns into the empty cache.
load_cache_key_required(f) ==
    IF f.state = "absent" THEN EmptyCache
    ELSE IF f.state = "unreadable" THEN Raised("PermissionError")
    ELSE IF f.state = "corrupt" THEN EmptyCache
    ELSE IF f.state = "json_top_level_list" THEN Raised("AttributeError")
    ELSE IF f.state = "json_last_checked_number" THEN Raised("TypeError")
    ELSE IF f.state = "json_last_checked_not_iso" THEN EmptyCache
    ELSE IF f.state = "json_seen_prs_number" THEN Raised("TypeError")
    ELSE IF f.state = "json_without_repo_activity" THEN EmptyCache
    ELSE Cache(f.seen_prs, f.pr_statuses,
               IF f.last_checked # JsonNull
               THEN fromisoformat(f.last_checked) ELSE NoneTime,
               load_repo_activity(f))

\* cache.py:23-49
load_cache(f) ==
    IF f.state = "absent" THEN EmptyCache                       \* 32-33
    ELSE IF f.state = "unreadable" THEN Raised("PermissionError")   \* 36
    ELSE IF f.state = "corrupt" THEN EmptyCache                 \* 37, 48-49
    ELSE IF f.state = "json_top_level_list" THEN Raised("AttributeError") \* 40
    ELSE IF f.state = "json_last_checked_number" THEN Raised("TypeError") \* 41
    ELSE IF f.state = "json_last_checked_not_iso" THEN EmptyCache   \* 41, 48-49
    ELSE IF f.state = "json_seen_prs_number" THEN Raised("TypeError")     \* 44
    ELSE Cache(f.seen_prs, f.pr_statuses,
               IF f.last_checked # JsonNull
               THEN fromisoformat(f.last_checked) ELSE NoneTime,
               load_repo_activity(f))

\* Cache files the process can find at startup.
InitFiles ==
    {AbsentFile,
     save_cache(Cache({1, 2}, (IntKey(1) :> "waiting"), -1,
                      ("org/a" :> -1) @@ ("org/b" :> 0)))}

\* ------------------------------------------------------------------ state
VARIABLES
    cache,              \* self.cache (app.py:33)
    file,               \* the cache file at get_cache_path()
    prs,                \* self.prs (app.py:34)
    is_first_run,       \* self.is_first_run (app.py:35)
    ui_update_pending,  \* self._ui_update_pending (app.py:36)
    title,              \* self.title, the menu bar title
    menu,               \* the PR list the menu was last built from
    phase,              \* "main", "exited", "crashed", "configured" (main, app.py:291-304),
                        \* "constructed", "running" (run called), "polling"
    pc,                 \* per worker thread: the statement it is at
    exc,                \* per worker thread: the exception it caught
    emitted,            \* per worker thread: what it sent to the sink
    now,                \* datetime.now(timezone.utc), in days
    activity_lookback_days, \* self.config.activity_lookback_days
    polls,              \* polls started so far
    polls_ok,           \* polls that ran to the end of the try block (app.py:249)
    saving,             \* per worker thread: the data save_cache is writing
    loaded,             \* what the last call of load_cache returned or raised
    github,             \* what the GitHub API answers to the client
    config,             \* self._config of the client
    fetched,            \* what the last call of the client returned or raised
    config_file,        \* the configuration file at get_config_path()
    ui                  \* the main thread inside _ui_update_callback: the statement it is at

\* The state of the functions of cache.py and github_client.py taken alone.
lib_vars == <<loaded, github, config, fetched, config_file>>

\* The state of the app apart from the cache and its file.
app_vars == <<prs, is_first_run, ui_update_pending, title, menu, phase, pc,
              exc, emitted, now, activity_lookback_days, polls, polls_ok,
              saving, ui>>

vars == <<cache, file, prs, is_first_run, ui_update_pending, title, menu,
          phase, pc, exc, emitted, now, activity_lookback_days, polls,
          polls_ok, saving, loaded, github, config, fetched, config_file, ui>>

\* No call made yet.
NoCall == [called |-> "nothing"]

\* Nothing sent to the sink: no new-PR and no status-change notification, no
\* error signal, no notification whose delivery raised.
NoEvents == [new |-> <<>>, changes |-> <<>>, failed |-> <<>>, lost |-> {}]

Hourglass == [icon |-> "hourglass", reviews |-> 0, created |-> 0]

\* app.py:25-47
Init ==
    /\ file \in InitFiles
    /\ cache = load_cache(file)
    /\ prs = <<>>
    /\ is_first_run = TRUE
    /\ ui_update_pending = FALSE
    /\ title = Hourglass
    /\ menu = <<>>
    /\ phase = "constructed"
    /\ pc = [t \in Threads |-> "idle"]
    /\ exc = [t \in Threads |-> "none"]
    /\ emitted = [t \in Threads |-> NoEvents]
    /\ now = 0
    /\ activity_lookback_days \in 1..MaxLookback
    /\ polls = 0
    /\ polls_ok = 0
    /\ saving = [t \in Threads |-> NoCall]
    /\ loaded = NoCall
    /\ github = NoCall
    /\ config = NoCall
    /\ fetched = NoCall
    /\ config_file = NoCall
    /\ ui = "idle"

\* ------------------------------------------------------------------- menu
\* app.py:172-189
update_title(review_requests, created_prs) ==
    IF Len(review_requests) = 0 /\ Len(created_prs) = 0
    THEN [icon |-> "check", reviews |-> 0, created |-> 0]
    ELSE [icon |-> "counts", reviews |-> Len(review_requests),
          created |-> Len(created_prs)]

\* app.py:59-170
do_update_menu ==
    /\ menu' = prs
    /\ title' = update_title(SelectSeqBy(prs, {p \in Range(prs) : p.type = "review_request"}),
                             SelectSeqBy(prs, {p \in Range(prs) : p.type = "created"}))

\* app.py:280-288
Run ==
    /\ phase = "constructed"
    /\ do_update_menu
    /\ phase' = "running"
    /\ UNCHANGED lib_vars
    /\ UNCHANGED ui
    /\ UNCHANGED saving
    /\ UNCHANGED <<cache, file, prs, is_first_run, ui_update_pending, pc, exc,
                   emitted, now, activity_lookback_days, polls, polls_ok>>

\* app.py:49-53, the 0.1 s timer on the main thread
ui_update_callback ==
    /\ phase \in {"running", "polling"}
    /\ ui = "idle"
    /\ ui_update_pending
    /\ ui_update_pending' = FALSE
    /\ do_update_menu
    /\ UNCHANGED lib_vars
    /\ UNCHANGED ui
    /\ UNCHANGED saving
    /\ UNCHANGED <<cache, file, prs, is_first_run, phase, pc, exc, emitted,
                   now, activity_lookback_days, polls, polls_ok>>

\* ---------------------------------------------------------- starting polls
\* app.py:205-208: a new daemon thread per call, whatever else is running.
\* Its callers are callbacks of the main thread, which is then not inside
\* _ui_update_callback.
poll(t) ==
    /\ ui = "idle"
    /\ polls < MaxPolls
    /\ pc[t] = "idle"
    /\ \A u \in Threads : u < t => pc[u] # "idle"
    /\ pc' = [pc EXCEPT ![t] = "fetch"]
    /\ exc' = [exc EXCEPT ![t] = "none"]
    /\ emitted' = [emitted EXCEPT ![t] = NoEvents]
    /\ polls' = polls + 1

\* app.py:273-278
initial_poll(t) ==
    /\ phase = "running"
    /\ title' = Hourglass
    /\ poll(t)
    /\ phase' = "polling"
    /\ UNCHANGED lib_vars
    /\ UNCHANGED ui
    /\ UNCHANGED saving
    /\ UNCHANGED <<cache, file, prs, is_first_run, ui_update_pending, menu,
                   now, activity_lookback_days, polls_ok>>

\* app.py:43, 205: the refresh_interval timer fires
timer_poll(t) ==
    /\ phase = "polling"
    /\ poll(t)
    /\ UNCHANGED lib_vars
    /\ UNCHANGED ui
    /\ UNCHANGED saving
    /\ UNCHANGED <<cache, file, prs, is_first_run, ui_update_pending, title,
                   menu, phase, now, activity_lookback_days, polls_ok>>

\* app.py:262-266
on_check_now(t) ==
    /\ phase \in {"running", "polling"}
    /\ title' = Hourglass
    /\ poll(t)
    /\ UNCHANGED lib_vars
    /\ UNCHANGED ui
    /\ UNCHANGED saving
    /\ UNCHANGED <<cache, file, prs, is_first_run, ui_update_pending, menu,
                   phase, now, activity_lookback_days, polls_ok>>

\* The clock advances by a day.
Tick ==
    /\ now < MaxTime
    /\ now' = now + 1
    /\ UNCHANGED lib_vars
    /\ UNCHANGED ui
    /\ UNCHANGED saving
    /\ UNCHANGED <<cache, file, prs, is_first_run, ui_update_pending, title,
                   menu, phase, pc, exc, emitted, activity_lookback_days, polls, polls_ok>>

\* ---------------------------------------------------------- reconciliation
\* find_new_prs without the seen-id filter.
find_new_prs_all(current_prs, seen_ids) == current_prs

\* notifications.py:8-18
find_new_prs(current_prs, seen_ids) ==
    SelectSeqBy(current_prs, {p \in Range(current_prs) : p.id \notin seen_ids})

\* dict.get(pr.id) on the status map: the key is the int id.
get_status(old_statuses, i) ==
    IF IntKey(i) \in DOMAIN old_statuses THEN old_statuses[IntKey(i)] ELSE NoneStatus

RECURSIVE status_changes_variant(_, _, _)
\* find_status_changes with one line changed: "any" drops the test on the
\* new status, "known" skips a PR without an old status, "none" reports a
\* missing old status as it is.
status_changes_variant(current_prs, old_statuses, variant) ==
    IF current_prs = <<>> THEN <<>>
    ELSE LET pr == Head(current_prs)
             rest == status_changes_variant(Tail(current_prs), old_statuses, variant)
             old_status == get_status(old_statuses, pr.id)
             new_status == pr.review_status
         IN IF pr.type # "created" \/ pr.review_status = NoneStatus THEN rest
            ELSE IF /\ old_status # new_status
                    /\ (variant = "any" \/ new_status \in {"approved", "changes_requested"})
                    /\ (variant = "known" => old_status # NoneStatus)
                 THEN <<[id |-> pr.id,
                         old |-> IF old_status = NoneStatus /\ variant # "none"
                                 THEN "unknown" ELSE old_status,
                         new |-> new_status]>> \o rest
                 ELSE rest

find_status_changes_any(current_prs, old_statuses) ==
    status_changes_variant(current_prs, old_statuses, "any")

find_status_changes_known(current_prs, old_statuses) ==
    status_changes_variant(current_prs, old_statuses, "known")

find_status_changes_none(current_prs, old_statuses) ==
    status_changes_variant(current_prs, old_statuses, "none")

RECURSIVE find_status_changes(_, _)
\* notifications.py:38-65
find_status_changes(current_prs, old_statuses) ==
    IF current_prs = <<>> THEN <<>>
    ELSE LET pr == Head(current_prs)
             rest == find_status_changes(Tail(current_prs), old_statuses)
             old_status == get_status(old_statuses, pr.id)
             new_status == pr.review_status
         IN IF pr.type # "created" \/ pr.review_status = NoneStatus THEN rest
            ELSE IF old_status # new_status
                    /\ new_status \in {"approved", "changes_requested"}
                 THEN <<[id |-> pr.id,
                         old |-> IF old_status = NoneStatus THEN "unknown" ELSE old_status,
                         new |-> new_status]>> \o rest
                 ELSE rest

\* update_repo_activity keeping an entry that is exactly lookback days old.
update_repo_activity_ge(activity, current_prs, t, lookback) ==
    LET touched == {p.repo : p \in Range(current_prs)}
        stamped == [r \in DOMAIN activity \cup touched |->
                       IF r \in touched THEN t ELSE activity[r]]
        cutoff == t - lookback
    IN [r \in {x \in DOMAIN stamped : stamped[x] >= cutoff} |-> stamped[r]]

\* update_repo_activity that prunes but stamps nothing.
update_repo_activity_prune_only(activity, current_prs, t, lookback) ==
    LET cutoff == t - lookback
    IN [r \in {x \in DOMAIN activity : activity[x] > cutoff} |-> activity[r]]

\* app.py:215-226
update_repo_activity(activity, current_prs, t, lookback) ==
    LET touched == {p.repo : p \in Range(current_prs)}
        stamped == [r \in DOMAIN activity \cup touched |->
                       IF r \in touched THEN t ELSE activity[r]]
        cutoff == t - lookback
    IN [r \in {x \in DOMAIN stamped : stamped[x] > cutoff} |-> stamped[r]]

\* app.py:240
seen_ids_of(current_prs) == {p.id : p \in Range(current_prs)}

\* The status mapping without the filter on type and status.
statuses_of_all(current_prs) ==
    [k \in {IntKey(p.id) : p \in Range(current_prs)} |->
        (CHOOSE p \in Range(current_prs) : p.id = k.v).review_status]

\* app.py:241-245
statuses_of(current_prs) ==
    LET tracked == {p \in Range(current_prs) :
                       p.type = "created" /\ p.review_status # NoneStatus}
    IN [k \in {IntKey(p.id) : p \in tracked} |->
           (CHOOSE p \in tracked : p.id = k.v).review_status]

\* --------------------------------------------- _fetch_and_update, by step
\* app.py:213, the fetch returns
fetch_ok(t) ==
    /\ pc[t] = "fetch"
    /\ \E result \in FetchResults : prs' = result
    /\ pc' = [pc EXCEPT ![t] = "reconcile"]
    /\ UNCHANGED lib_vars
    /\ UNCHANGED ui
    /\ UNCHANGED saving
    /\ UNCHANGED <<cache, file, is_first_run, ui_update_pending, title, menu,
                   phase, exc, emitted, now, activity_lookback_days, polls, polls_ok>>

\* fetch_fail that also drops the PR list.
fetch_fail_clears(t) ==
    /\ pc[t] = "fetch"
    /\ \E e \in Errors : exc' = [exc EXCEPT ![t] = e]
    /\ prs' = <<>>
    /\ pc' = [pc EXCEPT ![t] = "except"]
    /\ UNCHANGED lib_vars
    /\ UNCHANGED ui
    /\ UNCHANGED saving
    /\ UNCHANGED <<cache, file, is_first_run, ui_update_pending, title,
                   menu, phase, emitted, now, activity_lookback_days, polls, polls_ok>>

\* app.py:213, github_client.py:264-272: the fetch raises
fetch_fail(t) ==
    /\ pc[t] = "fetch"
    /\ \E e \in Errors : exc' = [exc EXCEPT ![t] = e]
    /\ pc' = [pc EXCEPT ![t] = "except"]
    /\ UNCHANGED lib_vars
    /\ UNCHANGED ui
    /\ UNCHANGED saving
    /\ UNCHANGED <<cache, file, prs, is_first_run, ui_update_pending, title,
                   menu, phase, emitted, now, activity_lookback_days, polls, polls_ok>>

\* The notifications without the first-run guard.
should_notify_always(first_run) == TRUE

\* app.py:229
should_notify(first_run) == ~first_run

\* The ids of a list of PRs, in order: what the sink is told about.
ids_of(current_prs) == [k \in DOMAIN current_prs |-> current_prs[k].id]

\* app.py:231-232, 236-237: the calls of notify_new_pr and notify_status_change
notifications(new_ids, changes) ==
    {[kind |-> "new", id |-> new_ids[k]] : k \in DOMAIN new_ids}
        \cup {[kind |-> "status", id |-> changes[k].id] : k \in DOMAIN changes}

\* reconcile with notify_new_pr and notify_status_change letting the error
\* of pync.notify through.
reconcile_raising(t) ==
    /\ pc[t] = "reconcile"
    /\ cache' = [cache EXCEPT !.repo_activity =
                    update_repo_activity(cache.repo_activity, prs, now,
                                         activity_lookback_days)]
    /\ IF should_notify(is_first_run)
       THEN LET new_ids == ids_of(find_new_prs(prs, cache.seen_prs))
                changes == find_status_changes(prs, cache.pr_statuses)
            IN \E lost \in SUBSET notifications(new_ids, changes) :
                   /\ emitted' = [emitted EXCEPT ![t].new = new_ids,
                                                 ![t].changes = changes,
                                                 ![t].lost = lost]
                   /\ IF lost = {}
                      THEN pc' = [pc EXCEPT ![t] = "update_cache"] /\ exc' = exc
                      ELSE /\ pc' = [pc EXCEPT ![t] = "except"]
                           /\ exc' = [exc EXCEPT ![t] = "notify"]
       ELSE /\ emitted' = emitted
            /\ pc' = [pc EXCEPT ![t] = "update_cache"]
            /\ exc' = exc
    /\ UNCHANGED lib_vars
    /\ UNCHANGED ui
    /\ UNCHANGED saving
    /\ UNCHANGED <<file, prs, is_first_run, ui_update_pending, title, menu,
                   phase, now, activity_lookback_days, polls, polls_ok>>

\* app.py:215-237: the repo activity bookkeeping, then the notifications;
\* notifications.py:27-35, 82-89: pync.notify may raise on any of them, and
\* the error is dropped
reconcile(t) ==
    /\ pc[t] = "reconcile"
    /\ cache' = [cache EXCEPT !.repo_activity =
                    update_repo_activity(cache.repo_activity, prs, now,
                                         activity_lookback_days)]
    /\ IF should_notify(is_first_run)
       THEN LET new_ids == ids_of(find_new_prs(prs, cache.seen_prs))
                changes == find_status_changes(prs, cache.pr_statuses)
            IN \E lost \in SUBSET notifications(new_ids, changes) :
                   emitted' = [emitted EXCEPT ![t].new = new_ids,
                                             ![t].changes = changes,
                                             ![t].lost = lost]
       ELSE emitted' = emitted
    /\ pc' = [pc EXCEPT ![t] = "update_cache"]
    /\ UNCHANGED lib_vars
    /\ UNCHANGED ui
    /\ UNCHANGED saving
    /\ UNCHANGED <<file, prs, is_first_run, ui_update_pending, title, menu,
                   phase, exc, now, activity_lookback_days, polls, polls_ok>>

\* update_cache that adds to seen_prs and pr_statuses instead of replacing.
update_cache_merges(t) ==
    /\ pc[t] = "update_cache"
    /\ cache' = [cache EXCEPT !.seen_prs = cache.seen_prs \cup seen_ids_of(prs),
                              !.pr_statuses = statuses_of(prs) @@ cache.pr_statuses,
                              !.last_checked = now]
    /\ saving' = [saving EXCEPT ![t] = save_cache(cache')]
    /\ pc' = [pc EXCEPT ![t] = "write"]
    /\ UNCHANGED lib_vars
    /\ UNCHANGED ui
    /\ UNCHANGED <<file, prs, is_first_run, ui_update_pending, title, menu,
                   phase, exc, emitted, now, activity_lookback_days, polls,
                   polls_ok>>

\* app.py:239-247, cache.py:59-65: the cache is replaced and save_cache
\* builds the data it will write from it
update_cache(t) ==
    /\ pc[t] = "update_cache"
    /\ cache' = [cache EXCEPT !.seen_prs = seen_ids_of(prs),
                              !.pr_statuses = statuses_of(prs),
                              !.last_checked = now]
    /\ saving' = [saving EXCEPT ![t] = save_cache(cache')]
    /\ pc' = [pc EXCEPT ![t] = "write"]
    /\ UNCHANGED lib_vars
    /\ UNCHANGED ui
    /\ UNCHANGED <<file, prs, is_first_run, ui_update_pending, title, menu,
                   phase, exc, emitted, now, activity_lookback_days, polls,
                   polls_ok>>

\* write_cache that does not write the file.
write_cache_skipped(t) ==
    /\ pc[t] = "write"
    /\ saving' = [saving EXCEPT ![t] = NoCall]
    /\ is_first_run' = FALSE
    /\ polls_ok' = polls_ok + 1
    /\ pc' = [pc EXCEPT ![t] = "schedule"]
    /\ UNCHANGED lib_vars
    /\ UNCHANGED ui
    /\ UNCHANGED <<cache, file, prs, ui_update_pending, title, menu, phase, exc,
                   emitted, now, activity_lookback_days, polls>>

\* cache.py:67-68, app.py:249: the data is written to the cache file and the
\* first-run flag cleared
write_cache(t) ==
    /\ pc[t] = "write"
    /\ file' = saving[t]
    /\ saving' = [saving EXCEPT ![t] = NoCall]
    /\ is_first_run' = FALSE
    /\ polls_ok' = polls_ok + 1
    /\ pc' = [pc EXCEPT ![t] = "schedule"]
    /\ UNCHANGED lib_vars
    /\ UNCHANGED ui
    /\ UNCHANGED <<cache, prs, ui_update_pending, title, menu, phase, exc,
                   emitted, now, activity_lookback_days, polls>>

\* app.py:239-247, cache.py:59-68: the cache is replaced, then save_cache
\* raises (mkdir or open fails) and leaves the file as it was
update_cache_save_fails(t) ==
    /\ pc[t] = "update_cache"
    /\ cache' = [cache EXCEPT !.seen_prs = seen_ids_of(prs),
                              !.pr_statuses = statuses_of(prs),
                              !.last_checked = now]
    /\ exc' = [exc EXCEPT ![t] = "disk"]
    /\ pc' = [pc EXCEPT ![t] = "except"]
    /\ UNCHANGED lib_vars
    /\ UNCHANGED ui
    /\ UNCHANGED saving
    /\ UNCHANGED <<file, prs, is_first_run, ui_update_pending, title, menu,
                   phase, emitted, now, activity_lookback_days, polls, polls_ok>>

\* The except block swallowing the error without telling the user.
except_step_silent(t) ==
    /\ pc[t] = "except"
    /\ pc' = [pc EXCEPT ![t] = "schedule"]
    /\ UNCHANGED lib_vars
    /\ UNCHANGED ui
    /\ UNCHANGED saving
    /\ UNCHANGED <<cache, file, prs, is_first_run, ui_update_pending, title,
                   menu, phase, exc, emitted, now, activity_lookback_days, polls,
                   polls_ok>>

\* The except block clearing the first-run flag as well.
except_step_clears_first_run(t) ==
    /\ pc[t] = "except"
    /\ emitted' = [emitted EXCEPT ![t].failed = Append(@, exc[t])]
    /\ is_first_run' = FALSE
    /\ pc' = [pc EXCEPT ![t] = "schedule"]
    /\ UNCHANGED lib_vars
    /\ UNCHANGED ui
    /\ UNCHANGED saving
    /\ UNCHANGED <<cache, file, prs, ui_update_pending, title,
                   menu, phase, exc, now, activity_lookback_days, polls, polls_ok>>

\* app.py:251-257
except_step(t) ==
    /\ pc[t] = "except"
    /\ emitted' = [emitted EXCEPT ![t].failed = Append(@, exc[t])]
    /\ pc' = [pc EXCEPT ![t] = "schedule"]
    /\ UNCHANGED lib_vars
    /\ UNCHANGED ui
    /\ UNCHANGED saving
    /\ UNCHANGED <<cache, file, prs, is_first_run, ui_update_pending, title,
                   menu, phase, exc, now, activity_lookback_days, polls, polls_ok>>

\* The thread ending without raising the pending flag.
schedule_ui_update_unflagged(t) ==
    /\ pc[t] = "schedule"
    /\ pc' = [pc EXCEPT ![t] = "idle"]
    /\ exc' = [exc EXCEPT ![t] = "none"]
    /\ emitted' = [emitted EXCEPT ![t] = NoEvents]
    /\ UNCHANGED lib_vars
    /\ UNCHANGED ui
    /\ UNCHANGED saving
    /\ UNCHANGED <<cache, file, prs, is_first_run, ui_update_pending, title,
                   menu, phase, now, activity_lookback_days, polls, polls_ok>>

\* app.py:55-57, 259-260; the thread ends
schedule_ui_update(t) ==
    /\ pc[t] = "schedule"
    /\ ui_update_pending' = TRUE
    /\ pc' = [pc EXCEPT ![t] = "idle"]
    /\ exc' = [exc EXCEPT ![t] = "none"]
    /\ emitted' = [emitted EXCEPT ![t] = NoEvents]
    /\ UNCHANGED lib_vars
    /\ UNCHANGED ui
    /\ UNCHANGED saving
    /\ UNCHANGED <<cache, file, prs, is_first_run, title, menu, phase, now,
                   activity_lookback_days, polls, polls_ok>>

Next ==
    \/ Run
    \/ ui_update_callback
    \/ Tick
    \/ \E t \in Threads : initial_poll(t)
    \/ \E t \in Threads : timer_poll(t)
    \/ \E t \in Threads : on_check_now(t)
    \/ \E t \in Threads : fetch_ok(t)
    \/ \E t \in Threads : fetch_fail(t)
    \/ \E t \in Threads : reconcile(t)
    \/ \E t \in Threads : update_cache(t)
    \/ \E t \in Threads : write_cache(t)
    \/ \E t \in Threads : update_cache_save_fails(t)
    \/ \E t \in Threads : except_step(t)
    \/ \E t \in Threads : schedule_ui_update(t)

Spec == Init /\ [][Next]_vars

TypeOK ==
    /\ prs \in FetchResults
    /\ is_first_run \in BOOLEAN
    /\ ui_update_pending \in BOOLEAN
    /\ polls \in 0..MaxPolls
    /\ polls_ok \in 0..polls
    /\ now \in 0..MaxTime
    /\ pc \in [Threads -> {"idle", "fetch", "reconcile", "update_cache",
                           "write", "except", "schedule"}]
    /\ ui \in {"idle", "clear", "rebuild"}

\* The rest of the app stays as constructed while a function runs alone.
AppIdle ==
    /\ ui = "idle"
    /\ prs = <<>>
    /\ is_first_run = TRUE
    /\ ui_update_pending = FALSE
    /\ title = Hourglass
    /\ menu = <<>>
    /\ phase = "constructed"
    /\ pc = [t \in Threads |-> "idle"]
    /\ exc = [t \in Threads |-> "none"]
    /\ emitted = [t \in Threads |-> NoEvents]
    /\ now = 0
    /\ activity_lookback_days = MaxLookback
    /\ polls = 0
    /\ polls_ok = 0
    /\ saving = [t \in Threads |-> NoCall]

\* ----------------------------------------- github_client.py taken alone
MaxReviews == 2      \* reviews submitted on the created PR
MaxTeams == 2        \* teams requested on the review-request PR

\* github_client.py:87-93, the login of the authenticated user
Me == "me"

\* A call that returned v.
Returned(v) == [returned |-> v]

\* team.organization of a requested team when GitHub gives none.
NoOrganization == [login |-> ""]

\* The requested-team records GitHub can answer with: organization and
\* slug, either of which can be missing.
TeamRecords ==
    {[organization |-> [login |-> "acme"], slug |-> "core"],
     [organization |-> [login |-> "acme"], slug |-> "ops"],
     [organization |-> NoOrganization, slug |-> "core"],
     [organization |-> [login |-> "acme"], slug |-> ""]}

\* The states a review can be in.
ReviewStates == {"APPROVED", "CHANGES_REQUESTED", "COMMENTED", "DISMISSED"}

\* get_review_status reading the first review instead of the last.
get_review_status_first(reviews) ==
    IF reviews = <<>> THEN "waiting"
    ELSE LET latest_review == reviews[1]
             state == latest_review.state
         IN IF state = "APPROVED" THEN "approved"
            ELSE IF state = "CHANGES_REQUESTED" THEN "changes_requested"
            ELSE IF state = "COMMENTED" THEN "commented"
            ELSE "waiting"

\* github_client.py:95-119
get_review_status(reviews) ==
    IF reviews = <<>> THEN "waiting"
    ELSE LET latest_review == reviews[Len(reviews)]
             state == latest_review.state
         IN IF state = "APPROVED" THEN "approved"
            ELSE IF state = "CHANGES_REQUESTED" THEN "changes_requested"
            ELSE IF state = "COMMENTED" THEN "commented"
            ELSE "waiting"

\* github_client.py:149, f"{team.organization.login}/{team.slug}"
team_id(team) == team.organization.login \o "/" \o team.slug

RECURSIVE team_ids_of_all(_)
\* team_reviewers without the test for a missing organization or slug.
team_ids_of_all(teams) ==
    IF teams = <<>> THEN <<>>
    ELSE <<team_id(Head(teams))>> \o team_ids_of_all(Tail(teams))

RECURSIVE team_ids_of(_)
\* github_client.py:143-150
team_ids_of(teams) ==
    IF teams = <<>> THEN <<>>
    ELSE IF Head(teams).organization = NoOrganization \/ Head(teams).slug = ""
         THEN team_ids_of(Tail(teams))
         ELSE <<team_id(Head(teams))>> \o team_ids_of(Tail(teams))

\* _should_show_review_request hiding whenever every team is excluded, also
\* when there is no team at all.
should_show_review_request_all(pr, username, excluded_review_teams) ==
    IF pr.read = "raises" THEN TRUE
    ELSE LET individual_reviewers == pr.requested_reviewers
             team_reviewers == team_ids_of(pr.requested_teams)
             excluded_set == Range(excluded_review_teams)
         IN IF username \in Range(individual_reviewers) THEN TRUE
            ELSE IF \E k \in DOMAIN team_reviewers : team_reviewers[k] \notin excluded_set
                 THEN TRUE
                 ELSE IF \A k \in DOMAIN team_reviewers : team_reviewers[k] \in excluded_set
                      THEN FALSE
                      ELSE TRUE

\* github_client.py:121-170
should_show_review_request(pr, username, excluded_review_teams) ==
    IF pr.read = "raises" THEN TRUE                                 \* 168-170
    ELSE LET individual_reviewers == pr.requested_reviewers         \* 141
             team_reviewers == team_ids_of(pr.requested_teams)      \* 143-150
             excluded_set == Range(excluded_review_teams)           \* 157
         IN IF username \in Range(individual_reviewers) THEN TRUE   \* 153-154
            ELSE IF \E k \in DOMAIN team_reviewers : team_reviewers[k] \notin excluded_set
                 THEN TRUE                                          \* 158-159
                 ELSE IF /\ team_reviewers # <<>>
                         /\ \A k \in DOMAIN team_reviewers : team_reviewers[k] \in excluded_set
                      THEN FALSE                                    \* 162-163
                      ELSE TRUE                                     \* 166

\* github_client.py:249-259 and 205-215, the PullRequest built from an issue
review_request_pr(issue) ==
    [id |-> issue.id, repo |-> issue.repo, type |-> "review_request",
     review_status |-> NoneStatus]
created_pr(issue, review_status) ==
    [id |-> issue.id, repo |-> issue.repo, type |-> "created",
     review_status |-> review_status]

RECURSIVE review_requests_strict(_, _)
\* The loop of _fetch_review_requests dropping the PR whose lookup fails.
review_requests_strict(issues, cfg) ==
    IF issues = <<>> THEN <<>>
    ELSE LET issue == Head(issues)
             rest == review_requests_strict(Tail(issues), cfg)
         IN IF issue.repo \in cfg.excluded_repos THEN rest
            ELSE IF cfg.excluded_review_teams # <<>>
                    /\ issue.lookup # "ok"
                 THEN rest
            ELSE IF cfg.excluded_review_teams # <<>>
                    /\ issue.lookup = "ok"
                    /\ ~should_show_review_request(issue.pull, Me,
                                                   cfg.excluded_review_teams)
                 THEN rest
                 ELSE <<review_request_pr(issue)>> \o rest

RECURSIVE review_requests(_, _)
\* github_client.py:230-260, the loop over the issues of the search
review_requests(issues, cfg) ==
    IF issues = <<>> THEN <<>>
    ELSE LET issue == Head(issues)
             rest == review_requests(Tail(issues), cfg)
         IN IF issue.repo \in cfg.excluded_repos THEN rest          \* 231-233
            ELSE IF cfg.excluded_review_teams # <<>>                \* 236
                    /\ issue.lookup = "ok"                          \* 238-239
                    /\ ~should_show_review_request(issue.pull, Me,
                                                   cfg.excluded_review_teams)
                 THEN rest                                          \* 241-242
                 ELSE <<review_request_pr(issue)>> \o rest          \* 243-260

\* github_client.py:220-262
fetch_review_requests(gh, cfg) ==
    IF gh.search = "raises" THEN Raised("GithubException")          \* 227
    ELSE Returned(review_requests(gh.requests, cfg))

\* The filter of _fetch_created_prs with 'any' accepting every status.
matches_created_filter_any_all(filter_type, review_status) ==
    IF filter_type = "waiting" /\ review_status # "waiting" THEN FALSE
    ELSE IF filter_type = "needs_attention" /\ review_status # "changes_requested"
         THEN FALSE
         ELSE TRUE

\* github_client.py:197-203
matches_created_filter(filter_type, review_status) ==
    IF filter_type = "waiting" /\ review_status # "waiting" THEN FALSE
    ELSE IF filter_type = "needs_attention" /\ review_status # "changes_requested"
         THEN FALSE
    ELSE IF filter_type = "any"
            /\ review_status \notin {"waiting", "changes_requested", "approved"}
         THEN FALSE
         ELSE TRUE

RECURSIVE created_prs_any_repo(_, _, _)
\* The loop of _fetch_created_prs without the test for an excluded repo.
created_prs_any_repo(issues, filter_type, cfg) ==
    IF issues = <<>> THEN <<>>
    ELSE LET issue == Head(issues)
             rest == created_prs_any_repo(Tail(issues), filter_type, cfg)
             review_status == get_review_status(issue.reviews)
         IN IF ~matches_created_filter(filter_type, review_status)
            THEN rest
            ELSE <<created_pr(issue, review_status)>> \o rest

RECURSIVE created_prs(_, _, _)
\* github_client.py:187-216, the loop over the issues of the search
created_prs(issues, filter_type, cfg) ==
    IF issues = <<>> THEN <<>>
    ELSE LET issue == Head(issues)
             rest == created_prs(Tail(issues), filter_type, cfg)
             review_status == get_review_status(issue.reviews)      \* 194
         IN IF issue.repo \in cfg.excluded_repos THEN rest          \* 188-190
            ELSE IF ~matches_created_filter(filter_type, review_status)
                 THEN rest                                          \* 197-203
                 ELSE <<created_pr(issue, review_status)>> \o rest  \* 205-216

\* github_client.py:172-218
fetch_created_prs(gh, filter_type, cfg) ==
    IF gh.search = "raises" THEN Raised("GithubException")          \* 182
    ELSE Returned(created_prs(gh.created, filter_type, cfg))

\* github_client.py:264-272
fetch_prs(gh, cfg) ==
    LET requests == fetch_review_requests(gh, cfg)
        created == fetch_created_prs(gh, cfg.created_pr_filter, cfg)
    IN IF "raised" \in DOMAIN requests THEN requests
       ELSE IF "raised" \in DOMAIN created THEN created
       ELSE Returned(requests.returned \o created.returned)

\* The configurations of the client.
Configs ==
    [excluded_repos : {{}, {"org/b"}, {"org/a"}},
     excluded_review_teams : {<<>>, <<"acme/core">>, <<"acme/core", "acme/ops">>},
     created_pr_filter : {"all", "waiting", "needs_attention", "any"}]

\* What GitHub answers at first: PR 2 of org/b and PR 4 of org/a ask for a
\* review, PR 4 from the user in person; the user has PR 1 open in org/a,
\* not reviewed yet.
InitGithub ==
    [search |-> "ok",
     requests |-> <<[id |-> 2, repo |-> "org/b", lookup |-> "ok",
                     pull |-> [read |-> "ok", requested_reviewers |-> <<>>,
                               requested_teams |-> <<>>]],
                    [id |-> 4, repo |-> "org/a", lookup |-> "ok",
                     pull |-> [read |-> "ok", requested_reviewers |-> <<Me>>,
                               requested_teams |-> <<>>]]>>,
     created |-> <<[id |-> 1, repo |-> "org/a", reviews |-> <<>>]>>]

ClientInit ==
    /\ github = InitGithub
    /\ config \in Configs
    /\ fetched = NoCall
    /\ config_file = NoCall
    /\ loaded = NoCall
    /\ cache = EmptyCache
    /\ file = AbsentFile
    /\ AppIdle

\* A reviewer submits a review on PR 1.
review_submitted ==
    /\ Len(github.created[1].reviews) < MaxReviews
    /\ \E st \in ReviewStates :
           github' = [github EXCEPT !.created[1].reviews = Append(@, [state |-> st])]
    /\ fetched' = NoCall
    /\ UNCHANGED <<cache, file, loaded, config>>
    /\ UNCHANGED config_file
    /\ UNCHANGED app_vars

\* A team is asked to review PR 2.
team_requested ==
    /\ Len(github.requests[1].pull.requested_teams) < MaxTeams
    /\ \E team \in TeamRecords :
           github' = [github EXCEPT !.requests[1].pull.requested_teams = Append(@, team)]
    /\ fetched' = NoCall
    /\ UNCHANGED <<cache, file, loaded, config>>
    /\ UNCHANGED config_file
    /\ UNCHANGED app_vars

\* A person is asked to review PR 2.
reviewer_requested ==
    /\ github.requests[1].pull.requested_reviewers = <<>>
    /\ \E login \in {Me, "bob"} :
           github' = [github EXCEPT !.requests[1].pull.requested_reviewers = <<login>>]
    /\ fetched' = NoCall
    /\ UNCHANGED <<cache, file, loaded, config>>
    /\ UNCHANGED config_file
    /\ UNCHANGED app_vars

\* The lookup of PR 2 starts to fail: get_repo raises, get_pull raises, or
\* reading the reviewers of the PR raises.
lookup_breaks ==
    /\ github.requests[1].lookup = "ok"
    /\ github.requests[1].pull.read = "ok"
    /\ \/ \E how \in {"get_repo_raises", "get_pull_raises"} :
              github' = [github EXCEPT !.requests[1].lookup = how]
       \/ github' = [github EXCEPT !.requests[1].pull.read = "raises"]
    /\ fetched' = NoCall
    /\ UNCHANGED <<cache, file, loaded, config>>
    /\ UNCHANGED config_file
    /\ UNCHANGED app_vars

\* The search API starts to fail.
search_breaks ==
    /\ github.search = "ok"
    /\ github' = [github EXCEPT !.search = "raises"]
    /\ fetched' = NoCall
    /\ UNCHANGED <<cache, file, loaded, config>>
    /\ UNCHANGED config_file
    /\ UNCHANGED app_vars

\* github_client.py:264-272: the client is asked for the PRs
client_fetch_prs ==
    /\ fetched = NoCall
    /\ fetched' = fetch_prs(github, config)
    /\ UNCHANGED <<cache, file, loaded, github, config>>
    /\ UNCHANGED config_file
    /\ UNCHANGED app_vars

ClientNext ==
    \/ review_submitted
    \/ team_requested
    \/ reviewer_requested
    \/ lookup_breaks
    \/ search_breaks
    \/ client_fetch_prs

ClientSpec == ClientInit /\ [][ClientNext]_vars

\* ------------------------------------------------- cache.py taken alone
\* The caches a process can hold when it saves.
CacheInputs ==
    {Cache(seen, statuses, checked, activity) :
        seen \in SUBSET {1, 2},
        statuses \in {EmptyMap, (IntKey(1) :> "waiting"),
                      (IntKey(1) :> "approved") @@ (IntKey(2) :> "waiting")},
        checked \in {NoneTime, 0},
        activity \in {EmptyMap, ("org/a" :> 0), ("org/a" :> -1) @@ ("org/b" :> 0)}}

CacheInit ==
    /\ cache \in CacheInputs
    /\ file = AbsentFile
    /\ loaded = NoCall
    /\ github = NoCall
    /\ config = NoCall
    /\ fetched = NoCall
    /\ config_file = NoCall
    /\ AppIdle

\* cache.py:52-68: the process saves its cache
cache_save ==
    /\ file' = save_cache(cache)
    /\ file' # file
    /\ loaded' = NoCall
    /\ UNCHANGED <<cache, github, config, fetched>>
    /\ UNCHANGED config_file
    /\ UNCHANGED app_vars

\* Something else than save_cache leaves the path in another state: the file
\* is removed, made unreadable, overwritten, or was written by a version of
\* the program without repo_activity.
file_replaced ==
    /\ \E st \in FileStates \ {file.state} : file' = [file EXCEPT !.state = st]
    /\ loaded' = NoCall
    /\ UNCHANGED <<cache, github, config, fetched>>
    /\ UNCHANGED config_file
    /\ UNCHANGED app_vars

\* cache.py:23-49: a process loads what is at the path
cache_load ==
    /\ loaded = NoCall
    /\ loaded' = load_cache(file)
    /\ UNCHANGED <<cache, file, github, config, fetched>>
    /\ UNCHANGED config_file
    /\ UNCHANGED app_vars

\* app.py:33: the loaded cache becomes the cache of the process
cache_adopted ==
    /\ loaded # NoCall
    /\ "raised" \notin DOMAIN loaded
    /\ cache' = loaded
    /\ cache' # cache
    /\ UNCHANGED <<file, loaded, github, config, fetched>>
    /\ UNCHANGED config_file
    /\ UNCHANGED app_vars

CacheNext == cache_save \/ file_replaced \/ cache_load \/ cache_adopted

CacheSpec == CacheInit /\ [][CacheNext]_vars

\* ------------------------------------------------- config.py and main
\* The values of a YAML mapping, with the type load_config tests.
YamlStr(s) == [type |-> "str", v |-> s]
YamlList(l) == [type |-> "list", v |-> l]
YamlInt(n) == [type |-> "int", v |-> n]

\* config.py:24-31
ConfigPath == "~/.config/reviewinator/config.yaml"

\* config.py:9-10, raise ConfigError(message): the message by its parts
ConfigError(message) == Raised([type |-> "ConfigError", message |-> message])

\* config.py:13-21
Config(token, review_repos, created_repos, filter, interval) ==
    [github_token |-> token,
     review_request_repos |-> review_repos,
     created_pr_repos |-> created_repos,
     created_pr_filter |-> filter,
     refresh_interval |-> interval]

\* data.get(key, default)
get(data, key, default) == IF key \in DOMAIN data THEN data[key] ELSE default

\* config.py:79
valid_filters == <<"all", "waiting", "needs_attention">>

\* config.py:58-94, the mapping read from the file
load_mapping(data) ==
    IF "github_token" \notin DOMAIN data                            \* 59-60
    THEN ConfigError(<<"Missing required field:", "github_token">>)
    ELSE IF {"review_request_repos", "repos"} \cap DOMAIN data = {} \* 63-68
    THEN ConfigError(<<"Missing required field:", "review_request_repos",
                       "(or", "repos", ")">>)
    ELSE LET review_request_repos ==
                 IF "review_request_repos" \in DOMAIN data
                 THEN data["review_request_repos"]
                 ELSE data["repos"]
             created_pr_repos == get(data, "created_pr_repos", YamlList(<<>>))    \* 74
             created_pr_filter == get(data, "created_pr_filter", YamlStr("waiting")) \* 78
             refresh_interval == get(data, "refresh_interval", YamlInt(300))      \* 86
         IN IF review_request_repos.type # "list" \/ review_request_repos.v = <<>>
            THEN ConfigError(<<"review_request_repos", "must be a non-empty list">>)
            ELSE IF created_pr_repos.type # "list"                  \* 75-76
            THEN ConfigError(<<"created_pr_repos", "must be a list">>)
            ELSE IF created_pr_filter \notin {YamlStr(f) : f \in Range(valid_filters)}
            THEN ConfigError(<<"created_pr_filter", "must be one of:", valid_filters,
                               "(got:", created_pr_filter.v, ")">>)  \* 80-84
            ELSE Returned(Config(data["github_token"].v, review_request_repos.v,
                                 created_pr_repos.v, created_pr_filter.v,
                                 refresh_interval.v))               \* 88-94

\* load_config taking a missing file for an empty mapping.
load_config_lenient(f) ==
    IF f.state = "absent" THEN load_mapping(EmptyMap)
    ELSE IF f.state = "unreadable" THEN Raised([type |-> "PermissionError"])
    ELSE IF f.state = "invalid_yaml"
    THEN ConfigError(<<"Invalid YAML:", "YAMLError">>)
    ELSE IF f.state = "not_mapping"
    THEN ConfigError(<<"Config must be a YAML mapping">>)
    ELSE IF "github_token" \notin DOMAIN f.data
    THEN Returned(Config("", <<>>, <<>>, "waiting", 300))
    ELSE load_mapping(f.data)

\* config.py:34-94
load_config(f) ==
    IF f.state = "absent"                                           \* 46-47
    THEN ConfigError(<<"Config file not found:", ConfigPath>>)
    ELSE IF f.state = "unreadable"                                  \* 50
    THEN Raised([type |-> "PermissionError"])
    ELSE IF f.state = "invalid_yaml"                                \* 52-53
    THEN ConfigError(<<"Invalid YAML:", "YAMLError">>)
    ELSE IF f.state = "not_mapping"                                 \* 55-56
    THEN ConfigError(<<"Config must be a YAML mapping">>)
    ELSE load_mapping(f.data)

Token == "github_token" :> YamlStr("ghp_test123")
Repos == "review_request_repos" :> YamlList(<<"org/a">>)

\* The configuration files the program is started with.
ConfigFiles ==
    {[state |-> st, data |-> EmptyMap] :
        st \in {"absent", "unreadable", "invalid_yaml", "not_mapping"}}
    \cup
    {[state |-> "mapping", data |-> d] :
        d \in {EmptyMap,
               Token,
               Repos,
               "repos" :> YamlList(<<"org/a">>),
               Token @@ Repos,
               Token @@ ("repos" :> YamlList(<<"org/a">>)),
               Token @@ ("review_request_repos" :> YamlList(<<>>)),
               Token @@ ("review_request_repos" :> YamlStr("org/a")),
               Token @@ Repos @@ ("created_pr_repos" :> YamlStr("org/a")),
               Token @@ Repos @@ ("created_pr_filter" :> YamlStr("any")),
               Token @@ Repos @@ ("created_pr_filter" :> YamlStr("all"))
                     @@ ("refresh_interval" :> YamlInt(600))}}

\* The process is started: nothing is loaded yet and there is no app.
MainInit ==
    /\ phase = "main"
    /\ config_file \in ConfigFiles
    /\ ui = "idle"
    /\ config = NoCall
    /\ file \in InitFiles
    /\ cache = NoCall
    /\ prs = <<>>
    /\ is_first_run = TRUE
    /\ ui_update_pending = FALSE
    /\ title = Hourglass
    /\ menu = <<>>
    /\ pc = [t \in Threads |-> "idle"]
    /\ exc = [t \in Threads |-> "none"]
    /\ emitted = [t \in Threads |-> NoEvents]
    /\ now = 0
    /\ activity_lookback_days = MaxLookback
    /\ polls = 0
    /\ polls_ok = 0
    /\ saving = [t \in Threads |-> NoCall]
    /\ loaded = NoCall
    /\ github = NoCall
    /\ fetched = NoCall

\* app.py:291-303, 25-47: main loads the configuration; on a ConfigError it
\* notifies and returns, otherwise it constructs the app, which loads the
\* cache
main ==
    /\ phase = "main"
    /\ config' = load_config(config_file)                           \* 294
    /\ IF "raised" \in DOMAIN config'
       THEN /\ phase' = IF config'.raised.type = "ConfigError"
                        THEN "exited"                               \* 295-301
                        ELSE "crashed"
            /\ cache' = cache
       ELSE LET loaded_cache == load_cache(file)                    \* 303, 33
            IN IF "raised" \in DOMAIN loaded_cache
               THEN phase' = "crashed" /\ cache' = cache
               ELSE phase' = "constructed" /\ cache' = loaded_cache
    /\ UNCHANGED <<file, prs, is_first_run, ui_update_pending, title, menu, pc,
                   exc, emitted, now, activity_lookback_days, polls, polls_ok,
                   saving, loaded, github, fetched, config_file, ui>>

StartupNext == main \/ Next

StartupSpec == MainInit /\ [][StartupNext]_vars

\* ------------------------------------- _ui_update_callback, by statement
\* app.py:51: the 0.1 s timer fires and finds the flag set
ui_check ==
    /\ phase \in {"running", "polling"}
    /\ ui = "idle"
    /\ ui_update_pending
    /\ ui' = "clear"
    /\ UNCHANGED lib_vars
    /\ UNCHANGED <<cache, file, prs, is_first_run, ui_update_pending, title,
                   menu, phase, pc, exc, emitted, now, activity_lookback_days,
                   polls, polls_ok, saving>>

\* app.py:52
ui_clear ==
    /\ ui = "clear"
    /\ ui_update_pending' = FALSE
    /\ ui' = "rebuild"
    /\ UNCHANGED lib_vars
    /\ UNCHANGED <<cache, file, prs, is_first_run, title, menu, phase, pc,
                   exc, emitted, now, activity_lookback_days, polls, polls_ok,
                   saving>>

\* app.py:53
ui_rebuild ==
    /\ ui = "rebuild"
    /\ do_update_menu
    /\ ui' = "idle"
    /\ UNCHANGED lib_vars
    /\ UNCHANGED <<cache, file, prs, is_first_run, ui_update_pending, phase,
                   pc, exc, emitted, now, activity_lookback_days, polls,
                   polls_ok, saving>>

\* The statements of one worker thread (app.py:210-260).
fetch_and_update(t) ==
    \/ fetch_ok(t)
    \/ fetch_fail(t)
    \/ reconcile(t)
    \/ update_cache(t)
    \/ write_cache(t)
    \/ update_cache_save_fails(t)
    \/ except_step(t)
    \/ schedule_ui_update(t)

\* The app with _ui_update_callback taken statement by statement. The clock
\* stands still: it enters last_checked and repo_activity only.
LiveNext ==
    \/ Run
    \/ ui_check
    \/ ui_clear
    \/ ui_rebuild
    \/ \E t \in Threads : initial_poll(t)
    \/ \E t \in Threads : timer_poll(t)
    \/ \E t \in Threads : on_check_now(t)
    \/ \E t \in Threads : fetch_ok(t)
    \/ \E t \in Threads : fetch_fail(t)
    \/ \E t \in Threads : reconcile(t)
    \/ \E t \in Threads : update_cache(t)
    \/ \E t \in Threads : write_cache(t)
    \/ \E t \in Threads : update_cache_save_fails(t)
    \/ \E t \in Threads : except_step(t)
    \/ \E t \in Threads : schedule_ui_update(t)

\* The UI timer keeps firing and the main thread runs its callback on
\* (app.py:45-46); a started thread runs on and its fetch returns or raises.
LiveSpec ==
    /\ Init
    /\ [][LiveNext]_vars
    /\ WF_vars(ui_check)
    /\ WF_vars(ui_clear)
    /\ WF_vars(ui_rebuild)
    /\ \A t \in Threads : WF_vars(fetch_and_update(t))

\* --------------------------------------------- the app after its first poll
\* What the first poll fetched: the review request PR 2 and the created PR 1.
FirstFetch == <<PullRequest(2, NoneStatus), PullRequest(1, "waiting")>>

\* The app once its first poll, started with no cache file, fetched
\* FirstFetch, saved the cache and ended, and the menu was rebuilt
\* (app.py:210-260, 49-53). polls and polls_ok count from here.
SteadyInit ==
    /\ prs = FirstFetch
    /\ cache = Cache(seen_ids_of(FirstFetch), statuses_of(FirstFetch), 0,
                     update_repo_activity(EmptyMap, FirstFetch, 0, MaxLookback))
    /\ file = save_cache(cache)
    /\ is_first_run = FALSE
    /\ ui_update_pending = FALSE
    /\ menu = FirstFetch
    /\ title = update_title(<<FirstFetch[1]>>, <<FirstFetch[2]>>)
    /\ phase = "polling"
    /\ pc = [t \in Threads |-> "idle"]
    /\ exc = [t \in Threads |-> "none"]
    /\ emitted = [t \in Threads |-> NoEvents]
    /\ now = 0
    /\ activity_lookback_days = MaxLookback
    /\ polls = 0
    /\ polls_ok = 0
    /\ saving = [t \in Threads |-> NoCall]
    /\ loaded = NoCall
    /\ github = NoCall
    /\ config = NoCall
    /\ fetched = NoCall
    /\ config_file = NoCall
    /\ ui = "idle"

\* The steps of the app once run() and the initial poll are behind it.
SteadyNext ==
    \/ ui_update_callback
    \/ Tick
    \/ \E t \in Threads : timer_poll(t)
    \/ \E t \in Threads : on_check_now(t)
    \/ \E t \in Threads : fetch_ok(t)
    \/ \E t \in Threads : fetch_fail(t)
    \/ \E t \in Threads : reconcile(t)
    \/ \E t \in Threads : update_cache(t)
    \/ \E t \in Threads : write_cache(t)
    \/ \E t \in Threads : update_cache_save_fails(t)
    \/ \E t \in Threads : except_step(t)
    \/ \E t \in Threads : schedule_ui_update(t)

SteadySpec == SteadyInit /\ [][SteadyNext]_vars

\* ------------------------------------------- PR 3 opened and staying open
\* app.py:213, the fetch returns a list that holds PR 3
fetch_ok_present(t) ==
    /\ fetch_ok(t)
    /\ 3 \in {prs'[k].id : k \in DOMAIN prs'}

\* The steps of the app after its first poll while every fetch that returns
\* holds PR 3.
PresentNext ==
    \/ ui_update_callback
    \/ Tick
    \/ \E t \in Threads : timer_poll(t)
    \/ \E t \in Threads : on_check_now(t)
    \/ \E t \in Threads : fetch_ok_present(t)
    \/ \E t \in Threads : fetch_fail(t)
    \/ \E t \in Threads : reconcile(t)
    \/ \E t \in Threads : update_cache(t)
    \/ \E t \in Threads : write_cache(t)
    \/ \E t \in Threads : update_cache_save_fails(t)
    \/ \E t \in Threads : except_step(t)
    \/ \E t \in Threads : schedule_ui_update(t)

PresentSpec == SteadyInit /\ [][PresentNext]_vars

\* ================================================================= claims
\* What the claims speak of, read off the state without the operators of
\* the model.
Reconciles(t) == pc[t] = "reconcile" /\ pc'[t] = "update_cache"
ReplacesCache(t) == pc[t] = "update_cache" /\ pc'[t] # "update_cache"
Completes(t) == pc[t] = "update_cache" /\ pc'[t] = "write"
FetchFails(t) == pc[t] = "fetch" /\ pc'[t] = "except"
FetchFailed(t) == pc[t] \in {"except", "schedule"} /\ exc[t] \in Errors

FetchedIds == {prs[k].id : k \in DOMAIN prs}
Tracked == {prs[k] : k \in {j \in DOMAIN prs :
                prs[j].type = "created" /\ prs[j].review_status # NoneStatus}}
IsStatusMapOfFetch(m) ==
    /\ DOMAIN m = {IntKey(p.id) : p \in Tracked}
    /\ \A p \in Tracked : m[IntKey(p.id)] = p.review_status
Occurrences(seq, x) == Cardinality({k \in DOMAIN seq : seq[k] = x})
EventsFor(changes, i) == Cardinality({k \in DOMAIN changes : changes[k].id = i})
Notable == {"approved", "changes_requested"}
Event(i, old, new) == [id |-> i, old |-> old, new |-> new]

\* C1: as long as no poll has run to its end, a poll that reconciles emits
\* no new-PR event and no status-transition event, whatever was fetched and
\* whatever cache was loaded from disk; the cache it then writes has
\* seen_prs = the ids of the fetched PRs and pr_statuses = the id -> status
\* map of the fetched created PRs with a status.
C1_FirstPollSilentButPopulates ==
    [][\A t \in Threads :
        /\ (polls_ok = 0 /\ Reconciles(t)) =>
               emitted'[t].new = <<>> /\ emitted'[t].changes = <<>>
        /\ (polls_ok = 0 /\ ReplacesCache(t)) =>
               /\ cache'.seen_prs = FetchedIds
               /\ IsStatusMapOfFetch(cache'.pr_statuses)]_vars

\* The first poll ran to its end on a cache loaded from disk that did not
\* know PR 3, fetched PR 3, and told the sink nothing.
C1_Witness ==
    \E t \in Threads :
        /\ pc[t] = "schedule" /\ exc[t] = "none"
        /\ polls = 1 /\ polls_ok = 1
        /\ file.state = "json" /\ cache.last_checked >= 0
        /\ 3 \in cache.seen_prs /\ 2 \notin cache.seen_prs
        /\ emitted[t] = NoEvents

C3_OnePollInFlight ==
    Cardinality({t \in Threads : pc[t] # "idle"}) <= 1

\* C4: the steps of a poll whose fetch fails leave the in-memory cache, the
\* cache file, the PR list and the menu built from it as they were.
C4_FetchFailureKeepsState ==
    [][\A t \in Threads :
        (FetchFails(t) \/ (FetchFailed(t) /\ pc'[t] # pc[t])) =>
            /\ cache' = cache
            /\ file' = file
            /\ prs' = prs
            /\ menu' = menu]_vars

\* A poll whose fetch failed is about to end while the PR list of an
\* earlier poll is still there and shown.
C4_Witness ==
    \E t \in Threads :
        /\ pc[t] = "schedule" /\ exc[t] \in Errors
        /\ prs # <<>> /\ menu = prs
        /\ cache.seen_prs = FetchedIds /\ file = save_cache(cache)

\* C5: a poll whose fetch failed has sent exactly one "fetch failed" signal,
\* carrying the error message, and no new-PR or status-change event; a poll
\* that ran to its end (also with zero PRs) has sent no such signal.
C5_FetchFailedSignal ==
    \A t \in Threads :
        pc[t] = "schedule" =>
            /\ exc[t] \in Errors =>
                   /\ emitted[t].failed = <<exc[t]>>
                   /\ emitted[t].new = <<>>
                   /\ emitted[t].changes = <<>>
            /\ exc[t] = "none" => emitted[t].failed = <<>>

\* Two polls are about to end: one whose fetch failed, one that fetched
\* zero PRs and succeeded.
C5_Witness ==
    \E t, u \in Threads :
        /\ pc[t] = "schedule" /\ exc[t] \in Errors
        /\ pc[u] = "schedule" /\ exc[u] = "none"
        /\ prs = <<>> /\ cache.seen_prs = {}

\* C6: on a poll after the first successful one, a created PR that has an
\* entry in pr_statuses gets exactly one status-transition event when its
\* status changed and the new status is approved or changes_requested, and
\* none otherwise.
C6_TransitionEvents ==
    [][\A t \in Threads :
        (polls_ok >= 1 /\ Reconciles(t)) =>
            \A p \in Tracked :
                IntKey(p.id) \in DOMAIN cache.pr_statuses =>
                    LET old == cache.pr_statuses[IntKey(p.id)]
                    IN IF old # p.review_status /\ p.review_status \in Notable
                       THEN /\ EventsFor(emitted'[t].changes, p.id) = 1
                            /\ Occurrences(emitted'[t].changes,
                                           Event(p.id, old, p.review_status)) = 1
                       ELSE EventsFor(emitted'[t].changes, p.id) = 0]_vars

\* PR 1 went from waiting to approved and the sink was told so, once.
C6_Witness ==
    \E t \in Threads :
        /\ pc[t] = "update_cache" /\ polls_ok >= 1
        /\ Occurrences(emitted[t].changes, Event(1, "waiting", "approved")) = 1
        /\ EventsFor(emitted[t].changes, 1) = 1

\* The poll of C7: not the first, on seen_prs = {1, 2} and
\* pr_statuses = {1: waiting}, with PR 3 and PR 1 fetched, both approved.
C7_Case ==
    /\ polls_ok >= 1
    /\ cache.seen_prs = {1, 2}
    /\ cache.pr_statuses = (IntKey(1) :> "waiting")
    /\ prs = <<PullRequest(3, "approved"), PullRequest(1, "approved")>>

\* C7, as claimed: the poll yields novelty [3], the transitions
\* [(1, waiting -> approved)] with none for PR 3, and seen_prs {1, 3}.
C7_AsClaimed ==
    [][\A t \in Threads :
        /\ (C7_Case /\ Reconciles(t)) =>
               /\ emitted'[t].new = <<3>>
               /\ emitted'[t].changes = <<Event(1, "waiting", "approved")>>
        /\ (C7_Case /\ ReplacesCache(t)) => cache'.seen_prs = {1, 3}]_vars

\* C7, amended: the poll yields novelty [3], the transitions
\* [(3, unknown -> approved), (1, waiting -> approved)], and seen_prs {1, 3}.
C7_Amended ==
    [][\A t \in Threads :
        /\ (C7_Case /\ Reconciles(t)) =>
               /\ emitted'[t].new = <<3>>
               /\ emitted'[t].changes = <<Event(3, "unknown", "approved"),
                                          Event(1, "waiting", "approved")>>
        /\ (C7_Case /\ ReplacesCache(t)) => cache'.seen_prs = {1, 3}]_vars

\* That poll ran to its end: both transitions were sent, seen_prs is {1, 3}.
C7_Witness ==
    \E t \in Threads :
        /\ pc[t] = "schedule" /\ exc[t] = "none" /\ polls_ok >= 2
        /\ emitted[t].new = <<3>>
        /\ emitted[t].changes = <<Event(3, "unknown", "approved"),
                                  Event(1, "waiting", "approved")>>
        /\ cache.seen_prs = {1, 3}
        /\ 2 \in {menu[k].id : k \in DOMAIN menu}

\* C8: on a poll after the first successful one, a created PR with a status
\* and no entry in pr_statuses gets a transition event, with old status
\* "unknown", if and only if its status is approved or changes_requested.
C8_AbsentIsUnknown ==
    [][\A t \in Threads :
        (polls_ok >= 1 /\ Reconciles(t)) =>
            \A p \in Tracked :
                IntKey(p.id) \notin DOMAIN cache.pr_statuses =>
                    /\ Occurrences(emitted'[t].changes,
                                   Event(p.id, "unknown", p.review_status))
                           = IF p.review_status \in Notable THEN 1 ELSE 0
                    /\ \A k \in DOMAIN emitted'[t].changes :
                           emitted'[t].changes[k].id = p.id =>
                               emitted'[t].changes[k].old = "unknown"]_vars

\* PR 1, not in pr_statuses, was fetched with changes requested and the
\* sink was told unknown -> changes_requested.
C8_Witness ==
    \E t \in Threads :
        /\ pc[t] = "update_cache" /\ polls_ok >= 1
        /\ IntKey(1) \notin DOMAIN cache.pr_statuses
        /\ emitted[t].changes = <<Event(1, "unknown", "changes_requested")>>

\* C9: a poll that runs to its end leaves seen_prs = the ids of the fetched
\* PRs, pr_statuses = the id -> status map of the fetched created PRs with a
\* status (nothing of the cache before survives) and last_checked = the
\* time of the poll.
C9_FullReplacement ==
    [][\A t \in Threads :
        Completes(t) =>
            /\ cache'.seen_prs = FetchedIds
            /\ IsStatusMapOfFetch(cache'.pr_statuses)
            /\ cache'.last_checked = now]_vars

\* A second poll ran to its end with nothing fetched while the menu still
\* shows the PRs of the poll before: seen_prs and pr_statuses are empty.
C9_Witness ==
    \E t \in Threads :
        /\ pc[t] = "schedule" /\ exc[t] = "none" /\ polls_ok >= 2
        /\ menu # <<>> /\ prs = <<>>
        /\ cache.seen_prs = {} /\ DOMAIN cache.pr_statuses = {}
        /\ cache.last_checked = now

\* C10, as claimed: after the bookkeeping of a poll no entry of
\* repo_activity is older than now - activity_lookback_days, and an entry
\* that is not older than that is not removed.
C10_AsClaimed ==
    [][\A t \in Threads :
        Reconciles(t) =>
            /\ \A r \in DOMAIN cache'.repo_activity :
                   cache'.repo_activity[r] >= now - activity_lookback_days
            /\ \A r \in DOMAIN cache.repo_activity :
                   cache.repo_activity[r] >= now - activity_lookback_days
                       => r \in DOMAIN cache'.repo_activity]_vars

\* C10, amended: after the bookkeeping of a poll every entry of
\* repo_activity is later than now - activity_lookback_days (an entry
\* exactly that old is removed too), and an entry later than that is not
\* removed.
C10_Amended ==
    [][\A t \in Threads :
        Reconciles(t) =>
            /\ \A r \in DOMAIN cache'.repo_activity :
                   cache'.repo_activity[r] > now - activity_lookback_days
            /\ \A r \in DOMAIN cache.repo_activity :
                   cache.repo_activity[r] > now - activity_lookback_days
                       => r \in DOMAIN cache'.repo_activity]_vars

\* A poll that fetched nothing pruned org/a, last active exactly
\* activity_lookback_days ago (the cache file still has it), and kept org/b.
C10_Witness ==
    \E t \in Threads :
        /\ pc[t] = "update_cache" /\ prs = <<>>
        /\ file.state = "json" /\ "org/a" \in DOMAIN file.repo_activity
        /\ fromisoformat(file.repo_activity["org/a"]) = now - activity_lookback_days
        /\ DOMAIN cache.repo_activity = {"org/b"}

\* C11: the bookkeeping of every poll, the first one too, sets
\* repo_activity[pr.repo] to the time of the poll for every fetched PR,
\* review request or created; the entry of a repo without a fetched PR keeps
\* its timestamp, or is gone because it is activity_lookback_days old or
\* older; no other entry appears.
C11_RepoActivityStamped ==
    [][\A t \in Threads :
        Reconciles(t) =>
            LET touched == {prs[k].repo : k \in DOMAIN prs}
                before == cache.repo_activity
                after == cache'.repo_activity
            IN /\ \A r \in touched : r \in DOMAIN after /\ after[r] = now
               /\ DOMAIN after \subseteq DOMAIN before \cup touched
               /\ \A r \in DOMAIN before \ touched :
                      IF r \in DOMAIN after
                      THEN after[r] = before[r]
                      ELSE before[r] <= now - activity_lookback_days]_vars

\* The first poll, a day after the start, fetched PRs of org/a only: org/a
\* is stamped with that day, org/b keeps the day the cache file had for it.
C11_Witness ==
    \E t \in Threads :
        /\ pc[t] = "update_cache" /\ polls_ok = 0 /\ now = 1
        /\ {prs[k].repo : k \in DOMAIN prs} = {"org/a"}
        /\ file.state = "json"
        /\ fromisoformat(file.repo_activity["org/a"]) = -1
        /\ cache.repo_activity = ("org/a" :> 1) @@ ("org/b" :> 0)

\* All four fields of the cache are non-empty / set.
AllSet(c) ==
    /\ c.seen_prs # {}
    /\ DOMAIN c.pr_statuses # {}
    /\ c.last_checked # NoneTime
    /\ DOMAIN c.repo_activity # {}

\* C12: loading the file save_cache wrote gives a cache equal to the saved
\* one in seen_prs, pr_statuses (same integer keys and values),
\* repo_activity and last_checked, for every cache with all four set.
C12_RoundTrip ==
    (loaded # NoCall /\ file = save_cache(cache) /\ AllSet(cache)) =>
        /\ "raised" \notin DOMAIN loaded
        /\ loaded.seen_prs = cache.seen_prs
        /\ loaded.pr_statuses = cache.pr_statuses
        /\ loaded.repo_activity = cache.repo_activity
        /\ loaded.last_checked = cache.last_checked

\* C13: load_cache never raises, and gives the empty default cache when the
\* file is absent, unreadable, not JSON, or JSON of the wrong structure or
\* types.
C13_LoadNeverRaises ==
    loaded # NoCall =>
        /\ "raised" \notin DOMAIN loaded
        /\ file.state \notin {"json", "json_without_repo_activity"} =>
               loaded = EmptyCache

FileHolds(f, c) ==
    /\ f.state = "json"
    /\ f.seen_prs = c.seen_prs
    /\ DOMAIN f.pr_statuses = {StrKey(k.v) : k \in DOMAIN c.pr_statuses}
    /\ \A k \in DOMAIN c.pr_statuses : f.pr_statuses[StrKey(k.v)] = c.pr_statuses[k]
    /\ DOMAIN f.repo_activity = DOMAIN c.repo_activity
    /\ \A r \in DOMAIN c.repo_activity :
           fromisoformat(f.repo_activity[r]) = c.repo_activity[r]
    /\ fromisoformat(f.last_checked) = c.last_checked

\* C15: when a poll has saved the cache and ends successfully, the cache
\* file holds the seen_prs, pr_statuses, repo_activity and last_checked of
\* the in-memory cache, however timer ticks and manual checks interleave.
C15_FileHoldsCache ==
    [][\A t \in Threads :
        (pc[t] = "write" /\ pc'[t] = "schedule") => FileHolds(file', cache')]_vars

\* ---------------------------------------------------------------- C16..C20
\* The review-request PR whose reviewers and teams change, and the created PR.
PR2 == github.requests[1]
PR1 == github.created[1]
FetchReturned == fetched # NoCall /\ "returned" \in DOMAIN fetched
FetchedIdsOf(result) == {result[k].id : k \in DOMAIN result}
LookupOk == PR2.lookup = "ok" /\ PR2.pull.read = "ok"
WellFormedTeam(team) == team.organization # NoOrganization /\ team.slug # ""
ResolvableTeams(teams) == {team_id(team) : team \in {x \in Range(teams) : WellFormedTeam(x)}}
\* The team-exclusion decision is made for PR 2: its repository is not
\* excluded, teams are excluded by the configuration, the lookup succeeded.
DecisionMade ==
    /\ FetchReturned
    /\ PR2.repo \notin config.excluded_repos
    /\ config.excluded_review_teams # <<>>
    /\ LookupOk

Reference(reviewers, teams, excludedTeams) ==
    IF Me \in reviewers THEN TRUE
    ELSE IF \E team \in teams : team \notin excludedTeams THEN TRUE
    ELSE IF teams # {} /\ \A team \in teams : team \in excludedTeams THEN FALSE
    ELSE TRUE

\* C16: whenever the team-exclusion decision is made for a review-request PR,
\* the PR is in the fetch result exactly when the reference shows it (user
\* among the individual reviewers; else some requested team not excluded; else
\* hidden if there are teams and all are excluded; else shown); a hidden PR
\* has the user not individually requested and every resolvable team excluded.
C16_DecisionIsReference ==
    DecisionMade =>
        LET shown == 2 \in FetchedIdsOf(fetched.returned)
            reviewers == Range(PR2.pull.requested_reviewers)
            teams == ResolvableTeams(PR2.pull.requested_teams)
            excludedTeams == Range(config.excluded_review_teams)
        IN /\ shown <=> Reference(reviewers, teams, excludedTeams)
           /\ ~shown => /\ Me \notin reviewers
                        /\ teams # {}
                        /\ teams \subseteq excludedTeams

\* A PR requested through two resolvable teams, both excluded, was hidden.
C16_Witness ==
    /\ DecisionMade
    /\ 2 \notin FetchedIdsOf(fetched.returned)
    /\ ResolvableTeams(PR2.pull.requested_teams) = {"acme/core", "acme/ops"}

LookupRepaired ==
    [github EXCEPT !.requests[1].lookup = "ok", !.requests[1].pull.read = "ok"]

\* C17: when the lookup of a review-request PR fails (get_repo or get_pull
\* raises, or reading the reviewers raises) and the searches succeed, the
\* fetch returns, the PR is in the result, and every other PR is in the
\* result exactly as it is when the lookup succeeds.
C17_LookupFailureFailsOpen ==
    (/\ fetched # NoCall
     /\ github.search = "ok"
     /\ PR2.repo \notin config.excluded_repos
     /\ ~LookupOk)
    => /\ "returned" \in DOMAIN fetched
       /\ 2 \in FetchedIdsOf(fetched.returned)
       /\ FetchedIdsOf(fetched.returned) \ {2}
            = FetchedIdsOf(fetch_prs(LookupRepaired, config).returned) \ {2}

\* The lookup failed for a PR that the decision would have hidden, and the
\* fetch returned the PR together with the other review request.
C17_Witness ==
    /\ FetchReturned
    /\ ~LookupOk
    /\ config.excluded_review_teams # <<>>
    /\ PR2.repo \notin config.excluded_repos
    /\ ~Reference(Range(PR2.pull.requested_reviewers),
                  ResolvableTeams(PR2.pull.requested_teams),
                  Range(config.excluded_review_teams))
    /\ {2, 4} \subseteq FetchedIdsOf(fetched.returned)

\* C18: a requested-team record without organization or without slug has no
\* influence: the PR is shown exactly when it is shown with the well-formed
\* records alone, and a PR whose team records are all malformed is shown.
C18_MalformedTeamIgnored ==
    DecisionMade =>
        LET shown == 2 \in FetchedIdsOf(fetched.returned)
            well_formed == SelectSeq(PR2.pull.requested_teams, WellFormedTeam)
        IN /\ shown <=> should_show_review_request(
                            [PR2.pull EXCEPT !.requested_teams = well_formed],
                            Me, config.excluded_review_teams)
           /\ (PR2.pull.requested_teams # <<>> /\ well_formed = <<>>) => shown

\* The only team record has no organization and the slug of an excluded
\* team; the user is not individually requested; the PR was shown.
C18_Witness ==
    /\ DecisionMade
    /\ PR2.pull.requested_teams = <<[organization |-> NoOrganization, slug |-> "core"]>>
    /\ "acme/core" \in Range(config.excluded_review_teams)
    /\ Me \notin Range(PR2.pull.requested_reviewers)
    /\ 2 \in FetchedIdsOf(fetched.returned)

Statuses == {"waiting", "approved", "changes_requested", "commented"}
\* The created PR was looked at by the filter: the fetch returned and the
\* repository of the PR is not excluded.
Filtered == FetchReturned /\ PR1.repo \notin config.excluded_repos
Accepted == 1 \in FetchedIdsOf(fetched.returned)
StatusOfPR1 == get_review_status(PR1.reviews)

\* C19 as the claim states it: 'all' and 'any' accept every status,
\* 'waiting' accepts only waiting, 'needs_attention' only changes_requested.
C19_AsClaimed ==
    Filtered =>
        /\ StatusOfPR1 \in Statuses
        /\ Accepted <=>
             \/ config.created_pr_filter \in {"all", "any"}
             \/ config.created_pr_filter = "waiting" /\ StatusOfPR1 = "waiting"
             \/ /\ config.created_pr_filter = "needs_attention"
                /\ StatusOfPR1 = "changes_requested"

\* C19: the created-PR filter accepts a PR of status waiting, approved,
\* changes_requested or commented exactly as follows: 'all' accepts every
\* status; 'any' accepts every status except commented; 'waiting' accepts
\* only waiting; 'needs_attention' accepts only changes_requested.
C19_Amended ==
    Filtered =>
        /\ StatusOfPR1 \in Statuses
        /\ Accepted <=>
             \/ config.created_pr_filter = "all"
             \/ config.created_pr_filter = "any" /\ StatusOfPR1 # "commented"
             \/ config.created_pr_filter = "waiting" /\ StatusOfPR1 = "waiting"
             \/ /\ config.created_pr_filter = "needs_attention"
                /\ StatusOfPR1 = "changes_requested"

\* Filter 'any' met a created PR whose last review is a comment, and the
\* fetch returned without the PR.
C19_Witness ==
    /\ Filtered
    /\ config.created_pr_filter = "any"
    /\ PR1.reviews # <<>>
    /\ PR1.reviews[Len(PR1.reviews)].state = "COMMENTED"
    /\ ~Accepted

\* The review_status of the created PR in the fetch result, if it is there.
ReviewStatusesOfPR1 ==
    {fetched.returned[k].review_status :
        k \in {j \in DOMAIN fetched.returned : fetched.returned[j].id = 1}}
LastReview == PR1.reviews[Len(PR1.reviews)]

\* C20 as the claim states it: waiting without reviews, otherwise approved,
\* changes_requested or commented according to the last review.
C20_AsClaimed ==
    FetchReturned =>
        \A review_status \in ReviewStatusesOfPR1 :
            IF PR1.reviews = <<>> THEN review_status = "waiting"
            ELSE /\ review_status \in {"approved", "changes_requested", "commented"}
                 /\ LastReview.state = "APPROVED" => review_status = "approved"
                 /\ LastReview.state = "CHANGES_REQUESTED"
                        => review_status = "changes_requested"
                 /\ LastReview.state = "COMMENTED" => review_status = "commented"

\* C20: the review_status of a created PR depends on the last review only:
\* waiting without reviews; otherwise approved, changes_requested or
\* commented when the last review is APPROVED, CHANGES_REQUESTED or
\* COMMENTED, and waiting when the last review is in any other state,
\* whatever the earlier reviews are.
C20_Amended ==
    FetchReturned =>
        \A review_status \in ReviewStatusesOfPR1 :
            IF PR1.reviews = <<>> THEN review_status = "waiting"
            ELSE CASE LastReview.state = "APPROVED" -> review_status = "approved"
                   [] LastReview.state = "CHANGES_REQUESTED"
                          -> review_status = "changes_requested"
                   [] LastReview.state = "COMMENTED" -> review_status = "commented"
                   [] OTHER -> review_status = "waiting"

\* An approval followed by a dismissed review: the PR is fetched as waiting.
C20_Witness ==
    /\ FetchReturned
    /\ Len(PR1.reviews) = 2
    /\ PR1.reviews[1].state = "APPROVED"
    /\ PR1.reviews[2].state = "DISMISSED"
    /\ ReviewStatusesOfPR1 = {"waiting"}

\* ---------------------------------------------------------------- C21
\* The fetch of the same answers of GitHub with no repository excluded.
FetchWithoutExclusion == fetch_prs(github, [config EXCEPT !.excluded_repos = {}])
NotExcluded(pr) == pr.repo \notin config.excluded_repos

\* C21: a fetch that returns holds no PR of an excluded repository, review
\* request or created, and holds every PR of the other repositories that
\* the fetch without any excluded repository holds, in the same order.
C21_ExcludedReposOnly ==
    FetchReturned =>
        /\ \A k \in DOMAIN fetched.returned : NotExcluded(fetched.returned[k])
        /\ fetched.returned = SelectSeq(FetchWithoutExclusion.returned, NotExcluded)

\* org/a is excluded: the review request PR 4 and the created PR 1, both of
\* org/a, are not in the result, and PR 2 of org/b is.
C21_Witness ==
    /\ FetchReturned
    /\ config.excluded_repos = {"org/a"}
    /\ config.created_pr_filter = "all"
    /\ FetchedIdsOf(FetchWithoutExclusion.returned) = {1, 2, 4}
    /\ FetchedIdsOf(fetched.returned) = {2}

\* ---------------------------------------------------------------- C22
\* The poll of thread t had a notification whose delivery raised.
DeliveryFailed(t) == emitted[t].lost # {}

\* C22: a poll some of whose notifications could not be delivered goes on
\* as the others do: every new-PR and status-change notification is still
\* attempted, the poll goes on to the cache update and not to the error
\* handler; its cache update replaces seen_prs and pr_statuses, sets
\* last_checked and saves; its write puts the saved data in the file and
\* clears the first-run flag; the only error signal it can send is that of
\* a failed save; and when it ends nothing of the failure remains.
C22_DeliveryFailureSwallowed ==
    [][\A t \in Threads :
        /\ (pc[t] = "reconcile" /\ pc'[t] # "reconcile") =>
               /\ pc'[t] = "update_cache"
               /\ exc'[t] = "none"
               /\ emitted'[t].failed = <<>>
               /\ ~is_first_run =>
                      /\ \A i \in FetchedIds \ cache.seen_prs :
                             Occurrences(emitted'[t].new, i) = 1
                      /\ \A p \in Tracked :
                             (/\ p.review_status \in Notable
                              /\ \/ IntKey(p.id) \notin DOMAIN cache.pr_statuses
                                 \/ cache.pr_statuses[IntKey(p.id)] # p.review_status)
                             => EventsFor(emitted'[t].changes, p.id) = 1
        /\ (DeliveryFailed(t) /\ pc[t] = "update_cache" /\ pc'[t] # pc[t]) =>
               /\ cache'.seen_prs = FetchedIds
               /\ IsStatusMapOfFetch(cache'.pr_statuses)
               /\ cache'.last_checked = now
               /\ pc'[t] = "write" => saving'[t] = save_cache(cache')
               /\ pc'[t] = "except" => exc'[t] = "disk"
        /\ (DeliveryFailed(t) /\ pc[t] = "write" /\ pc'[t] # pc[t]) =>
               /\ file' = saving[t]
               /\ is_first_run' = FALSE
               /\ pc'[t] = "schedule" /\ exc'[t] = "none"
               /\ emitted'[t].failed = <<>>
        /\ (DeliveryFailed(t) /\ pc'[t] = "idle") => emitted'[t] = NoEvents]_vars

\* After the first poll, a poll announced PR 3 as new and as approved,
\* neither notification could be delivered, and the poll saved the cache
\* with PR 3 seen and sent no error signal.
C22_Witness ==
    \E t \in Threads :
        /\ pc[t] = "schedule" /\ exc[t] = "none"
        /\ emitted[t].lost = {[kind |-> "new", id |-> 3], [kind |-> "status", id |-> 3]}
        /\ emitted[t].failed = <<>>
        /\ 3 \in cache.seen_prs
        /\ file = save_cache(cache)
        /\ ~is_first_run

\* ---------------------------------------------------------------- C23
\* A worker thread is between its first write of the state the menu is
\* built from (self.prs, app.py:213) and its last (the cache, 240-246).
MidWrite(t) == pc[t] \in {"reconcile", "update_cache"}
\* The UI thread rebuilds the menu (app.py:51-53).
Rebuilds == ui_update_pending /\ ~ui_update_pending'
\* A worker thread takes a step.
WorkerStep(t) == pc[t] # "idle" /\ pc'[t] # pc[t]

\* C23: a step of a worker thread leaves the menu and the title as they are
\* and only ever raises the pending-update flag, and the menu is never
\* rebuilt while a worker thread is between its writes of the PR list and
\* of the cache.
C23_RebuildNeverDuringWrites ==
    [][/\ \A t \in Threads :
              WorkerStep(t) =>
                  /\ menu' = menu /\ title' = title
                  /\ ui_update_pending' # ui_update_pending => ui_update_pending'
       /\ Rebuilds => \A t \in Threads : ~MidWrite(t)]_vars

\* ---------------------------------------------------------------- C24, C25
\* The configuration file is missing, or has no github_token.
FileMissing == config_file.state = "absent"
TokenMissing == config_file.state = "mapping" /\ "github_token" \notin DOMAIN config_file.data

\* C24: when the configuration file is missing or has no github_token, main
\* gets a ConfigError from load_config whose message names what is at
\* fault (the path of the missing file, the field github_token) and
\* returns: no app is constructed, the cache file is neither loaded nor
\* written and no poll starts, then or later.
C24_ConfigErrorIsFatal ==
    [][/\ (phase = "main" /\ phase' # "main" /\ (FileMissing \/ TokenMissing)) =>
              /\ "raised" \in DOMAIN config'
              /\ config'.raised.type = "ConfigError"
              /\ FileMissing => ConfigPath \in Range(config'.raised.message)
              /\ TokenMissing => "github_token" \in Range(config'.raised.message)
              /\ phase' = "exited"
              /\ cache' = NoCall /\ loaded' = NoCall
              /\ file' = file
              /\ polls' = 0
       /\ phase = "exited" =>
              /\ phase' = "exited"
              /\ cache' = NoCall /\ loaded' = NoCall
              /\ file' = file
              /\ polls' = 0 /\ pc' = pc]_vars

\* main returned on a configuration with repos and without github_token,
\* with a cache file on disk that was not loaded.
C24_Witness ==
    /\ phase = "exited"
    /\ config_file.state = "mapping"
    /\ DOMAIN config_file.data = {"repos"}
    /\ config = ConfigError(<<"Missing required field:", "github_token">>)
    /\ file.state = "json"
    /\ cache = NoCall
    /\ polls = 0

\* C25: a configuration file with github_token alone loads, with
\* refresh_interval = 300, excluded_repos = [], excluded_review_teams = [],
\* activity_lookback_days = 14 and created_pr_filter = 'any'.
C25_TokenOnlyLoadsWithDefaults ==
    (phase # "main" /\ config_file.state = "mapping"
                    /\ DOMAIN config_file.data = {"github_token"}) =>
        /\ "returned" \in DOMAIN config
        /\ {"refresh_interval", "excluded_repos", "excluded_review_teams",
            "activity_lookback_days", "created_pr_filter"}
               \subseteq DOMAIN config.returned
        /\ config.returned.refresh_interval = 300
        /\ config.returned.excluded_repos = <<>>
        /\ config.returned.excluded_review_teams = <<>>
        /\ config.returned.activity_lookback_days = 14
        /\ config.returned.created_pr_filter = "any"

\* ---------------------------------------------------------------- C26
\* The poll of thread t ends its try block: the cache is saved (app.py:247-249).
EndsTry(t) == pc[t] = "write" /\ pc'[t] = "schedule"

\* C26: the first-run flag is set as long as no poll has started; it changes
\* only from set to cleared, and only on the step of a poll that fetched,
\* reconciled and saved the cache without error; a poll that reconciles
\* while the flag is set sends no new-PR and no status-change notification,
\* and so the poll that clears the flag has sent none, however many polls
\* failed before it.
C26_FirstRunClearedBySuccessOnly ==
    [][/\ polls = 0 => is_first_run
       /\ is_first_run' # is_first_run =>
              /\ is_first_run /\ ~is_first_run'
              /\ \E t \in Threads :
                     /\ EndsTry(t)
                     /\ exc[t] = "none" /\ emitted[t].failed = <<>>
                     /\ file' = saving[t]
                     /\ emitted[t].new = <<>> /\ emitted[t].changes = <<>>
       /\ \A t \in Threads :
              (is_first_run /\ pc[t] = "reconcile" /\ pc'[t] # pc[t]) =>
                  emitted'[t].new = <<>> /\ emitted'[t].changes = <<>>]_vars

\* Of two polls one failed and is over; the other fetched PR 3, which the
\* cache loaded at startup did not know, cleared the flag and sent nothing.
C26_Witness ==
    \E t \in Threads :
        /\ polls = 2 /\ polls_ok = 1
        /\ \A u \in Threads \ {t} : pc[u] = "idle"
        /\ pc[t] = "schedule" /\ exc[t] = "none"
        /\ ~is_first_run
        /\ 3 \in FetchedIds /\ 3 \in cache.seen_prs
        /\ emitted[t] = NoEvents

\* ---------------------------------------------------------------- C27, C28
\* The poll of thread t ran to the end of its try block and told the sink
\* that PR i is new.
AnnouncedBySuccessfulPoll(t, i) ==
    pc[t] = "schedule" /\ exc[t] = "none" /\ i \in Range(emitted[t].new)

\* C27: while every fetch that returns holds PR 3, no two polls that ran to
\* the end of their try block have both announced it (or any other PR) as
\* new, however timer ticks and 'Check Now' interleave.
C27_AtMostOneNewNotification ==
    \A i \in 1..3 :
        Cardinality({t \in Threads : AnnouncedBySuccessfulPoll(t, i)}) <= 1

\* The ids the cache knows when the first poll is over.
InitiallySeen == {1, 2}
\* A step of a poll that failed or fails on this step.
StepOfFailedPoll(t) ==
    \/ pc[t] # "except" /\ pc'[t] = "except"
    \/ pc[t] \in {"except", "schedule"} /\ exc[t] # "none" /\ pc'[t] # pc[t]
\* A PR known when the first poll was over, fetched now and no longer in
\* seen_prs, is announced as new by the poll that reconciles.
ReportedNewAgain ==
    \A t \in Threads :
        Reconciles(t) =>
            \A i \in (InitiallySeen \cap FetchedIds) \ cache.seen_prs :
                Occurrences(emitted'[t].new, i) = 1

\* C28: a PR that was seen, dropped out of seen_prs and is fetched again is
\* announced as new again, and no step of a failed poll changes seen_prs.
C28_FailedPollKeepsSeenIds ==
    [][/\ ReportedNewAgain
       /\ \A t \in Threads :
              StepOfFailedPoll(t) => cache'.seen_prs = cache.seen_prs]_vars

\* ---------------------------------------------------------------------- C29
\* C29: every poll comes to the end of _fetch_and_update, fetch failed or
\* not; from there a menu rebuild on the main thread follows, and a rebuild
\* shows self.prs as it is then, which is that poll's result or the result
\* of a later fetch; the hourglass that 'Check Now' sets while it starts a
\* poll is replaced.
C29_PollFollowedByRebuild ==
    /\ \A t \in Threads : (pc[t] \in {"fetch", "except"}) ~> (pc[t] = "schedule")
    /\ \A t \in Threads : (pc[t] = "schedule") ~> (ui = "rebuild")
    /\ (ui = "rebuild") ~> (ui = "idle" /\ title # Hourglass)
    /\ [][(ui = "rebuild" /\ ui' = "idle") =>
              /\ menu' = prs
              /\ title' = update_title(
                     SelectSeqBy(prs, {p \in Range(prs) : p.type = "review_request"}),
                     SelectSeqBy(prs, {p \in Range(prs) : p.type = "created"}))]_vars
    /\ (title = Hourglass /\ \E t \in Threads : pc[t] # "idle")
           ~> (title # Hourglass)

\* A poll ended after the callback cleared the flag and before it rebuilt
\* the menu, with the hourglass still showing.
C29_Witness ==
    /\ ui = "rebuild"
    /\ ui_update_pending
    /\ title = Hourglass
    /\ polls = 2
    /\ \A t \in Threads : pc[t] = "idle"

\* ---------------------------------------------------------------------- C30
\* Every key of pr_statuses is the id (an int) of a seen PR of type
\* "created", mapped to a status that is not None.
StatusesWellFormed ==
    \A k \in DOMAIN cache.pr_statuses :
        /\ k.t = "int"
        /\ k.v \in cache.seen_prs
        /\ TypeOf(k.v) = "created"
        /\ cache.pr_statuses[k] # NoneStatus

\* C30: once a poll has run to the end of its try block, pr_statuses is
\* well formed in every state, so a review-request PR has no entry in it,
\* and no poll that reconciles emits a status-change event for a
\* review-request PR, fetched or not.
C30_StatusesOfCreatedOnly ==
    /\ [] (polls_ok >= 1 => StatusesWellFormed)
    /\ [][\A t \in Threads :
              Reconciles(t) =>
                  \A k \in DOMAIN emitted'[t].changes :
                      TypeOf(emitted'[t].changes[k].id) = "created"]_vars

\* A successful poll has put the review request PR 2 and the created PR 1
\* in the cache, and a later poll that fetched them again with PR 1 changed
\* has just announced that change.
C30_Witness ==
    \E t \in Threads :
        /\ polls_ok >= 1
        /\ pc[t] = "update_cache"
        /\ cache.seen_prs = {1, 2}
        /\ DOMAIN cache.pr_statuses = {IntKey(1)}
        /\ emitted[t].changes # <<>>

====
